---- MODULE Spec2Model ----
(***************************************************************************)
(* Apex Rider: the simulation core of GameCanvas (track generator, vehicle *)
(* update, apex scoring, crash) and the phase wiring of App.                *)
(*                                                                         *)
(* Numbers.  The program computes in IEEE doubles; the model computes in    *)
(* fixed point and truncates toward zero where a product is rescaled:       *)
(*   z, distanceTraveled   1/100 world unit     (SEGMENT_LENGTH = 100*ZU)   *)
(*   speed                 world units per second                           *)
(*   dt                    milliseconds                                     *)
(*   delta                 1/10000 second                                   *)
(*   slowMoFactor          1/1000                                           *)
(*   x, lean, alpha        1/10000                                          *)
(*   curve                 1/100                                            *)
(*   hold (block length)   1/100 segment                                    *)
(*   Math.random()         1/100 (percent)                                  *)
(***************************************************************************)
EXTENDS Integers, Sequences, FiniteSets, TLC

\* ------------------------------------------------------------------ bounds
\* Frame callbacks executed (frameIdRef never resets, so this caps all runs).
MaxFrames == 30
\* Frame callbacks executed in the GAME_OVER branch, per run.
MaxCrashFrames == 3
\* Frame callbacks that still run the closure of a phase React has replaced.
MaxStale == 1
\* Runs started (first start and restarts).
MaxRuns == 2
\* Key events delivered.
MaxInputEvents == 2
\* Random tapes: the outcomes Math.random() may produce, one tape per execution.
NTapes == 2
\* Display frame periods in ms (time between two requestAnimationFrame callbacks).
Periods == {66, 120}
\* Ticks applied to each drawn vehicle state in the single-tick specification.
MaxTicks == 1

\* ------------------------------------------------------------------ GAME_CONFIG
BASE_SPEED == 1500
MAX_SPEED == 9500
ACCELERATION == 2500
STEER_SENSITIVITY == 5
\* CURVE_SENSITIVITY is 0.7: in tenths.
CURVE_SENSITIVITY10 == 7
LEAN_SMOOTHING == 12
SEGMENT_LENGTH == 100
VISIBLE_SEGMENTS == 200
\* OFF_ROAD_LIMIT 1.0 and COLLISION_THRESHOLD 1.75 in 1/10000.
OFF_ROAD_LIMIT == 10000
COLLISION_THRESHOLD == 17500
OFF_ROAD_FRICTION == 6000
PERFECT_WINDOW == 800
ROAD_WIDTH == 2200
CAMERA_HEIGHT == 1500
\* CAMERA_DEPTH is 0.8: in tenths.
CAMERA_DEPTH10 == 8

\* Fixed-point scales (model resolution, see the header).
ZU == 10 * 10
ONE == 100 * 100

\* ------------------------------------------------------------------ utils
Abs(a) == IF a < 0 THEN -a ELSE a

Min(a, b) == IF a < b THEN a ELSE b

Max(a, b) == IF a > b THEN a ELSE b

\* Math.sign
Sign(a) == IF a > 0 THEN 1 ELSE IF a < 0 THEN -1 ELSE 0

\* Rescaling division, truncating toward zero.
Trunc(a, b) == IF a >= 0 THEN a \div b ELSE -((-a) \div b)

\* lerp(start, end, t) = start*(1-t) + end*t, with t = tNum/tDen.
lerp(start, end, tNum, tDen) == Trunc(start * (tDen - tNum) + end * tNum, tDen)

\* randomRange(min, max) = Math.random()*(max-min) + min, u the draw in percent;
\* min and max in the caller's scale (1/100).
randomRange(min, max, u) == Trunc(u * (max - min), 100) + min

\* Random tapes: what successive calls of Math.random() in generateRoad return, in
\* percent (0..99).  A tape is read cyclically; tapes beyond the table are arithmetic.
\*   tape 0: chicane, long hard turn, straight (hold 17.4), medium curve, straight
\*   tape 1: medium curve, straight (hold 10.6), chicane, long hard turn, straight
\*   tape 2: the threshold values 80, 20, 50 and a straight of hold exactly 10
Tapes ==
  << << 55, 90, 27,  85, 40, 70,  10, 37,  30, 50, 80,   5, 62 >>,
     << 35, 66, 51,  12,  3,  70, 20, 10,  95, 99, 60,  19, 81 >>,
     << 80,  0, 50,  20, 99, 99,  50, 33, 51,   0,  0,  79, 50, 49 >> >>

\* The n-th outcome of Math.random() on tape t (n from 0).
Tape(t, n) ==
  IF t < Len(Tapes)
  THEN Tapes[t + 1][(n % Len(Tapes[t + 1])) + 1]
  ELSE (37 * n + 61 * t + 11 * n * t + 53) % 100

\* ------------------------------------------------------------------ track
LastZ(segments) == IF Len(segments) > 0 THEN segments[Len(segments)].z ELSE 0

\* A variant of LoopCount: the loop test `i <= hold`, one iteration too many.
C1_LoopCountInclusive(hold100) == hold100 \div 100 + 1

\* Number of iterations of `for (i = 0; i < hold; i++)` for a real-valued hold.
LoopCount(hold100) == (hold100 + 99) \div 100

\* A variant of ApexOf: the apex at the start of the hold section.
C5_ApexAtHoldStart(startZ, enter, hold100, curve) ==
  IF Abs(curve) > 200
  THEN << [z |-> startZ + enter * SEGMENT_LENGTH * ZU,
           direction |-> Sign(curve), hit |-> FALSE, scored |-> FALSE] >>
  ELSE << >>

\* The apex registered by addTrackSegment, as a sequence of zero or one apex.
ApexOf(startZ, enter, hold100, curve) ==
  IF Abs(curve) > 200
  THEN << [z |-> startZ + enter * SEGMENT_LENGTH * ZU + Trunc(hold100 * SEGMENT_LENGTH * ZU, 200),
           direction |-> Sign(curve), hit |-> FALSE, scored |-> FALSE] >>
  ELSE << >>

\* addTrackSegment(enter, hold, exit, curve) applied to road r.  r.calls logs the
\* calls made on r: the start z and the arguments of each.
addTrackSegment(r, enter, hold100, exit, curve) ==
  LET startZ == LastZ(r.segments)
      nHold == LoopCount(hold100)
      enterSegs == [i \in 1..enter |->
                      [z |-> startZ + i * SEGMENT_LENGTH * ZU,
                       curve |-> Trunc(curve * (i - 1), enter),
                       color |-> FALSE]]
      holdSegs == [k \in 1..nHold |->
                      [z |-> startZ + (enter + k) * SEGMENT_LENGTH * ZU,
                       curve |-> curve,
                       color |-> (200 * (k - 1) > hold100 - 400
                                  /\ 200 * (k - 1) < hold100 + 400)]]
      exitSegs == [i \in 1..exit |->
                      [z |-> startZ + (enter + i) * SEGMENT_LENGTH * ZU
                               + Trunc(hold100 * SEGMENT_LENGTH * ZU, 100),
                       curve |-> Trunc(curve * (exit - (i - 1)), exit),
                       color |-> FALSE]]
  IN [segments |-> r.segments \o enterSegs \o holdSegs \o exitSegs,
      apexPoints |-> r.apexPoints \o ApexOf(startZ, enter, hold100, curve),
      calls |-> Append(r.calls, [startZ |-> startZ, enter |-> enter, hold |-> hold100,
                                 exit |-> exit, curve |-> curve])]

\* One random block of generateRoad: the draws at tape positions n, n+1, n+2.
\* Returns the road and the number of draws consumed.
RandomBlock(r, t, n) ==
  LET pattern == Tape(t, n)
      u == Tape(t, n + 1)
      dir == IF Tape(t, n + 2) > 50 THEN 1 ELSE -1
  IN IF pattern < 20
     THEN [road |-> addTrackSegment(r, 0, randomRange(1000, 3000, u), 0, 0), used |-> 2]
     ELSE IF pattern < 50
     THEN [road |-> addTrackSegment(r, 20, 2000, 20, randomRange(300, 600, u) * dir),
           used |-> 3]
     ELSE IF pattern < 80
     THEN [road |-> addTrackSegment(
                      addTrackSegment(r, 15, 1000, 15, randomRange(400, 700, u) * dir),
                      15, 1000, 15, -(randomRange(400, 700, u)) * dir),
           used |-> 3]
     ELSE [road |-> addTrackSegment(r, 30, 4000, 30, randomRange(500, 800, u) * dir),
           used |-> 3]

\* A variant of KeepSegment: the cleanup threshold one segment further behind.
C3_KeepSegmentLate(z, playerZ) == ~(z < playerZ - 2000 * ZU - SEGMENT_LENGTH * ZU)

\* The two cleanup thresholds of generateRoad.
KeepSegment(z, playerZ) == ~(z < playerZ - 2000 * ZU)

KeepApex(z, playerZ) == z > playerZ - 1000 * ZU

\* A variant of FirstKept: no cleanup behind.
C4_NoCleanup(segments, i, playerZ) == i

\* Index of the first segment from index i on that `while (segments[0].z < bound)
\* segments.shift()` keeps (Len+1 when it keeps none).
RECURSIVE FirstKept(_, _, _)
FirstKept(segments, i, playerZ) ==
  IF i > Len(segments) \/ KeepSegment(segments[i].z, playerZ)
  THEN i
  ELSE FirstKept(segments, i + 1, playerZ)

\* A variant of NeedsBlock: the horizon in segments taken for a distance.
C2_NeedsBlockShort(lastZ, playerZ) == lastZ < playerZ + VISIBLE_SEGMENTS * ZU

\* A variant of NeedsBlock: a block is appended on every call.
C15_NeedsBlockAlways(lastZ, playerZ) == lastZ >= 0

\* The horizon test of generateRoad.
NeedsBlock(lastZ, playerZ) == lastZ < playerZ + VISIBLE_SEGMENTS * SEGMENT_LENGTH * ZU

\* generateRoad(playerZ) applied to road r, with the tape t at position n.
\* blocks counts the random blocks the call appended; first tells whether it laid the
\* initial road.
generateRoad(r, playerZ, t, n) ==
  LET first == Len(r.segments) = 0
      r0 == IF first THEN addTrackSegment(r, 0, 5000, 0, 0) ELSE r
      need == NeedsBlock(LastZ(r0.segments), playerZ)
      blk == IF need THEN RandomBlock(r0, t, n) ELSE [road |-> r0, used |-> 0]
      segs == blk.road.segments
      k == FirstKept(segs, 1, playerZ)
      KeepAp(ap) == KeepApex(ap.z, playerZ)
  IN [road |-> [segments |-> SubSeq(segs, k, Len(segs)),
                apexPoints |-> SelectSeq(blk.road.apexPoints, KeepAp)],
      rnd |-> n + blk.used,
      blocks |-> IF need THEN 1 ELSE 0,
      first |-> first,
      calls |-> blk.road.calls,
      newApex |-> SubSeq(blk.road.apexPoints, Len(r.apexPoints) + 1,
                         Len(blk.road.apexPoints))]

\* ------------------------------------------------------------------ vehicle
\* Controls: right is tested first.
TargetLean(inp) == IF inp.right THEN 1 ELSE IF inp.left THEN -1 ELSE 0

\* segments.find(s => s.z >= distanceTraveled), as an index (Len+1: not found).
RECURSIVE FindSeg(_, _, _)
FindSeg(segments, i, dist) ==
  IF i > Len(segments) \/ segments[i].z >= dist
  THEN i
  ELSE FindSeg(segments, i + 1, dist)

\* curveIntensity: the curve of the found segment, else of segments[0], else 0.
CurveIntensity(segments, dist) ==
  LET i == FindSeg(segments, 1, dist)
  IN IF i <= Len(segments) THEN segments[i].curve
     ELSE IF Len(segments) > 0 THEN segments[1].curve
     ELSE 0

\* A variant of SpeedStep: the acceleration is not capped.
C19_SpeedStepUncapped(speed, gs, dt, delta) ==
  IF gs = "GAME_OVER"
  THEN lerp(speed, 0, 3 * dt, 1000)
  ELSE speed + Trunc(ACCELERATION * delta, ONE)

\* Speed step of update: decay when the closure's phase is GAME_OVER, else accelerate.
SpeedStep(speed, gs, dt, delta) ==
  IF gs = "GAME_OVER"
  THEN lerp(speed, 0, 3 * dt, 1000)
  ELSE Min(speed + Trunc(ACCELERATION * delta, ONE), MAX_SPEED)

\* A variant of Friction: no floor.
C20_FrictionNoFloor(speed, delta) == speed - Trunc(OFF_ROAD_FRICTION * delta, ONE)

\* Off-road friction with its floor.
Friction(speed, delta) == Max(speed - Trunc(OFF_ROAD_FRICTION * delta, ONE), 2000)

\* A variant of InWindow: apexes already hit stay candidates.
C16_InWindowHitToo(ap, dist) == Abs(ap.z - dist) < PERFECT_WINDOW * ZU

\* The apex window test of the lookup.
InWindow(ap, dist) == ~ap.hit /\ Abs(ap.z - dist) < PERFECT_WINDOW * ZU

\* apexPoints.find(...), as an index (Len+1: not found).
RECURSIVE FindApex(_, _, _)
FindApex(apexPoints, i, dist) ==
  IF i > Len(apexPoints) \/ InWindow(apexPoints[i], dist)
  THEN i
  ELSE FindApex(apexPoints, i + 1, dist)

\* A variant of HitCondition: the sign alone, without the 0.5 threshold.
C8_HitAnyLean(lean, direction) == Sign(lean) = Sign(direction)

\* The lean test of a hit.
HitCondition(lean, direction) ==
  Sign(lean) = Sign(direction) /\ Abs(lean) > 5000

IsPerfect(lean) == Abs(lean) > 8000

Boost(speed) == Min(speed + 300, MAX_SPEED)

\* A variant of ScoreDue: scored from the start of the apex window.
C6_ScoreDueEarly(ap, dist) == ~ap.scored /\ dist + PERFECT_WINDOW * ZU > ap.z

\* A variant of ScoreDue: only apexes that were hit score.
C17_ScoreDueIfHit(ap, dist) == ap.hit /\ ~ap.scored /\ dist > ap.z

\* The score test of one apex.
ScoreDue(ap, dist) == ~ap.scored /\ dist > ap.z

\* A variant of Collides: the pavement's edge taken for the barrier.
C10_CollidesOffRoad(absX) == absX > OFF_ROAD_LIMIT

\* The collider test.
Collides(absX) == absX > COLLISION_THRESHOLD

NoCrash == [active |-> FALSE, x |-> 0, y |-> 0, vx |-> 0, vy |-> 0, rot |-> 0, vRot |-> 0]

\* The crash state handleCrash creates.  vx in 1/2 unit/s, vy in 1/2 unit/s,
\* rot in 1/10000, vRot in 1/s.
CrashOf(p) ==
  LET flyDir == IF p.x > 0 THEN 1 ELSE -1
  IN [active |-> TRUE, x |-> 0, y |-> 0, vx |-> flyDir * p.speed, vy |-> -600,
      rot |-> p.lean, vRot |-> flyDir * 15]

\* The fall animation step.  x in 1/10^7, y in 1/2000.
CrashStep(c, dt) ==
  [c EXCEPT !.x = c.x + c.vx * 15 * dt,
            !.y = c.y + c.vy * dt,
            !.rot = c.rot + c.vRot * dt * 10,
            !.vy = c.vy + 3 * dt]

\* A variant of TrailStep: the point is recorded one segment ahead of the vehicle.
C24_TrailStepAhead(trail, x, dist, fid, delta) ==
  LET pushed == IF fid % 2 = 0
                THEN Append(trail, [x |-> x, z |-> dist + SEGMENT_LENGTH * ZU,
                                    alpha |-> ONE])
                ELSE trail
      Visible(pt) == pt.alpha > 0
  IN SelectSeq([i \in 1..Len(pushed) |->
                  [pushed[i] EXCEPT !.alpha = pushed[i].alpha - Trunc(15 * delta, 10)]],
               Visible)

\* The trail step: a point every other frame, fade, prune.
TrailStep(trail, x, dist, fid, delta) ==
  LET pushed == IF fid % 2 = 0
                THEN Append(trail, [x |-> x, z |-> dist, alpha |-> ONE])
                ELSE trail
      Visible(pt) == pt.alpha > 0
  IN SelectSeq([i \in 1..Len(pushed) |->
                  [pushed[i] EXCEPT !.alpha = pushed[i].alpha - Trunc(15 * delta, 10)]],
               Visible)

\* What a frame callback did, for the record kept in `last`.
NoObs ==
  [branch |-> "NONE", dt |-> 0, delta |-> 0, dist0 |-> 0, speed0 |-> 0, curve |-> 0,
   absX |-> 0, lean |-> 0, speedPhys |-> 0, apexZ |-> -1, hitZ |-> -1, hitDir |-> 0,
   hitBefore |-> FALSE, ratings |-> << >>, scoredNow |-> 0, scoredMaxZ |-> -1,
   crashes |-> 0, blocks |-> 0, first |-> FALSE, lastZ0 |-> 0, len0 |-> 0,
   calls |-> << >>, newApex |-> << >>, apex0 |-> << >>, score0 |-> 0,
   x0 |-> 0, lean0 |-> 0]

\* update is modelled as the sequence of its steps, each a function of the tick's
\* context c: the refs it works on (p, segments, apexPoints, slowMo), its inputs
\* (inp, gs the closure's gameState, dt, fid, tape, rnd), its locals (delta, curve,
\* dx), what it requested (crashed: handleCrash ran, setScore) and obs.
TickStart(p, r, inp, slowMo, gs, dt, fid, t, n) ==
  [p |-> p, segments |-> r.segments, apexPoints |-> r.apexPoints, inp |-> inp,
   slowMo |-> slowMo, gs |-> gs, dt |-> dt, delta |-> Trunc(dt * slowMo, 100),
   fid |-> fid, tape |-> t, rnd |-> n, curve |-> 0, dx |-> 0,
   crashed |-> FALSE, setScore |-> FALSE,
   obs |-> [NoObs EXCEPT !.branch = gs, !.dt = dt, !.delta = Trunc(dt * slowMo, 100),
                         !.dist0 = p.distanceTraveled, !.speed0 = p.speed,
                         !.lastZ0 = LastZ(r.segments), !.len0 = Len(r.segments),
                         !.apex0 = r.apexPoints, !.score0 = p.score,
                         !.x0 = p.x, !.lean0 = p.lean]]

\* 1. Controls and 2. Physics & Speed.
ControlStep(c) ==
  [c EXCEPT !.p.targetLean = TargetLean(c.inp),
            !.p.speed = SpeedStep(c.p.speed, c.gs, c.dt, c.delta)]

\* Current segment's curve and the lateral capability dx (1/100000).
CurveStep(c) ==
  [c EXCEPT !.curve = CurveIntensity(c.segments, c.p.distanceTraveled),
            !.obs.curve = CurveIntensity(c.segments, c.p.distanceTraveled),
            !.dx = Trunc(c.delta * 20 * c.p.speed, MAX_SPEED)]

\* Lean smoothing.
LeanStep(c) ==
  [c EXCEPT !.p.lean = lerp(c.p.lean, c.p.targetLean * ONE, LEAN_SMOOTHING * c.delta, ONE)]

\* Steering force and centrifugal force.
SteerStep(c) ==
  [c EXCEPT !.p.x = c.p.x + Trunc(c.p.lean * c.dx * STEER_SENSITIVITY, 100000)
                          - Trunc(c.curve * c.dx * CURVE_SENSITIVITY10, 10000)]

\* Auto-center on straights.
CenterStep(c) ==
  IF Abs(c.curve) < 50 /\ c.p.targetLean = 0
  THEN [c EXCEPT !.p.x = lerp(c.p.x, 0, c.delta, ONE)]
  ELSE c

\* Boundary logic: the off-road flag and friction.
BoundaryStep(c) ==
  [c EXCEPT !.p.offRoad = Abs(c.p.x) > OFF_ROAD_LIMIT,
            !.p.speed = IF Abs(c.p.x) > OFF_ROAD_LIMIT
                        THEN Friction(c.p.speed, c.delta) ELSE c.p.speed,
            !.obs.absX = Abs(c.p.x),
            !.obs.lean = c.p.lean,
            !.obs.speedPhys = IF Abs(c.p.x) > OFF_ROAD_LIMIT
                              THEN Friction(c.p.speed, c.delta) ELSE c.p.speed]

\* TRON trail logic.
TrailLogic(c) ==
  [c EXCEPT !.p.trail = TrailStep(c.p.trail, c.p.x, c.p.distanceTraveled, c.fid, c.delta)]

\* The hit at apex index ai.
ApexHit(c, ai) ==
  [c EXCEPT !.apexPoints[ai].hit = TRUE,
            !.p.speed = Boost(c.p.speed),
            !.obs.hitZ = c.apexPoints[ai].z,
            !.obs.hitDir = c.apexPoints[ai].direction,
            !.obs.hitBefore = c.apexPoints[ai].hit,
            !.obs.ratings = Append(c.obs.ratings,
                                   IF IsPerfect(c.p.lean) THEN "PERFECT" ELSE "GOOD")]

\* The examination of the apex found at index ai.
ApexExamine(c, ai) ==
  IF HitCondition(c.p.lean, c.apexPoints[ai].direction)
  THEN ApexHit([c EXCEPT !.obs.apexZ = c.apexPoints[ai].z], ai)
  ELSE [c EXCEPT !.obs.apexZ = c.apexPoints[ai].z]

\* Apex detection.
ApexStep(c) ==
  IF FindApex(c.apexPoints, 1, c.p.distanceTraveled) <= Len(c.apexPoints)
  THEN ApexExamine(c, FindApex(c.apexPoints, 1, c.p.distanceTraveled))
  ELSE c

\* The apexes the score update marks.
Due(c) == {i \in 1..Len(c.apexPoints) : ScoreDue(c.apexPoints[i], c.p.distanceTraveled)}

\* A variant of ScoreGain: the increment outside the `if`, once per tick.
C7_ScoreGainPerTick(score, n) == score + 1

\* `p.score += 1`, once per marked apex: the score after n apexes were marked.
ScoreGain(score, n) == score + n

\* The apex list after the score update's forEach.
MarkScored(apexPoints, dist) ==
  [i \in 1..Len(apexPoints) |->
     IF ScoreDue(apexPoints[i], dist)
     THEN [apexPoints[i] EXCEPT !.scored = TRUE]
     ELSE apexPoints[i]]

\* For the record: how many apexes of old changed to scored in new, and the largest
\* z among them (-1: none).
Marked(old, new) == {i \in 1..Len(old) : ~old[i].scored /\ new[i].scored}

MaxZ(apexPoints, idx) ==
  IF idx = {} THEN -1
  ELSE apexPoints[CHOOSE i \in idx : \A j \in idx : apexPoints[j].z <= apexPoints[i].z].z

\* Score update.
ScoreStep(c) ==
  [c EXCEPT !.apexPoints = MarkScored(c.apexPoints, c.p.distanceTraveled),
            !.p.score = ScoreGain(c.p.score, Cardinality(Due(c))),
            !.setScore = Due(c) # {},
            !.obs.scoredNow =
              Cardinality(Marked(c.apexPoints,
                                 MarkScored(c.apexPoints, c.p.distanceTraveled))),
            !.obs.scoredMaxZ =
              MaxZ(c.apexPoints,
                   Marked(c.apexPoints, MarkScored(c.apexPoints, c.p.distanceTraveled)))]

\* handleCrash: the phase request, the slow motion and the crash state.
handleCrash(c) ==
  [c EXCEPT !.crashed = TRUE, !.slowMo = 100, !.p.crash = CrashOf(c.p),
            !.obs.crashes = 1]

\* A variant of CollideStep: the collider tests the offset the tick started with.
C11_CollideAtTickStart(c) == IF Collides(Abs(c.obs.x0)) THEN handleCrash(c) ELSE c

\* The collider test on absX, the offset computed in the boundary logic.
CollideStep(c) == IF Collides(c.obs.absX) THEN handleCrash(c) ELSE c

\* The `gameState === PLAYING` branch of update.
DrivingBranch(c) ==
  CollideStep(ScoreStep(ApexStep(TrailLogic(BoundaryStep(CenterStep(SteerStep(
    LeanStep(c))))))))

\* The `gameState === GAME_OVER && p.crash.active` branch of update.
CrashBranch(c) == [c EXCEPT !.p.crash = CrashStep(c.p.crash, c.dt)]

\* A variant of BranchStep: the Driving branch runs whatever the closure's phase.
C21_BranchStepAlwaysDriving(c) == DrivingBranch(c)

BranchStep(c) ==
  IF c.gs = "PLAYING" THEN DrivingBranch(c)
  ELSE IF c.gs = "GAME_OVER" /\ c.p.crash.active THEN CrashBranch(c)
  ELSE c

\* Move forward.
ForwardStep(c) ==
  [c EXCEPT !.p.distanceTraveled = c.p.distanceTraveled + Trunc(c.p.speed * c.delta, 100)]

\* The result of generateRoad stored back into the context.
StoreRoad(c, gen) ==
  [c EXCEPT !.segments = gen.road.segments, !.apexPoints = gen.road.apexPoints,
            !.rnd = gen.rnd, !.obs.blocks = gen.blocks, !.obs.first = gen.first,
            !.obs.calls = gen.calls, !.obs.newApex = gen.newApex]

\* generateRoad(p.distanceTraveled).
RoadStep(c) ==
  StoreRoad(c, generateRoad([segments |-> c.segments, apexPoints |-> c.apexPoints,
                             calls |-> << >>],
                            c.p.distanceTraveled, c.tape, c.rnd))

\* 6. FX: the slow-motion factor relaxes toward 1.
FxStep(c) == [c EXCEPT !.slowMo = lerp(c.slowMo, 1000, c.dt, 1000)]

\* A variant of update: generateRoad runs first, for the distance the tick starts with.
C22_updateRoadFirst(p, r, inp, slowMo, gs, dt, fid, t, n) ==
  FxStep(ForwardStep(BranchStep(CurveStep(ControlStep(RoadStep(
    TickStart(p, r, inp, slowMo, gs, dt, fid, t, n)))))))

\* update(dt, time) with the closure's gameState gs: the whole tick.
update(p, r, inp, slowMo, gs, dt, fid, t, n) ==
  FxStep(RoadStep(ForwardStep(BranchStep(CurveStep(ControlStep(
    TickStart(p, r, inp, slowMo, gs, dt, fid, t, n)))))))

\* ------------------------------------------------------------------ state
VARIABLES
  gameState,     \* App: the committed phase, "MENU" | "PLAYING" | "GAME_OVER"
  pending,       \* a setGameState request React has not committed yet, or "NONE"
  loop,          \* the phase captured by the registered frame callback, or "NONE"
  appScore,      \* App: the score given to setScore
  player,        \* playerRef.current
  road,          \* roadRef.current
  input,         \* inputRef.current
  slowMoFactor,  \* fxRef.current.slowMoFactor
  frameId,       \* frameIdRef.current
  lastTime,      \* lastTimeRef.current (0: unset)
  time,          \* timestamp of the latest frame callback
  period,        \* the display's frame period
  tape,          \* the random tape of this execution
  rnd,           \* Math.random() outcomes generateRoad has consumed
  last,          \* what the latest frame callback of the run did (NoObs: none yet)
  runs,          \* runs started
  inputEvents,   \* key events delivered
  staleFrames,   \* frame callbacks of this run that ran a replaced phase's closure
  crashFrames,   \* frame callbacks of this run in the GAME_OVER branch
  view           \* arguments and results of the latest calls of project (NoView: none)

vars == << gameState, pending, loop, appScore, player, road, input, slowMoFactor,
           frameId, lastTime, time, period, tape, rnd, last, runs, inputEvents,
           staleFrames, crashFrames, view >>

\* No call of project recorded.
NoPoint == [screenX |-> 0, screenY |-> 0, scale |-> [num |-> 0, den |-> 1], w |-> 0]

NoView ==
  [lineX |-> 0, cameraZ |-> 0, width |-> 0, height |-> 0, z1 |-> 0, z2 |-> 0,
   done |-> FALSE, p1 |-> NoPoint, p2 |-> NoPoint]

FreshPlayer ==
  [x |-> 0, lean |-> 0, targetLean |-> 0, speed |-> BASE_SPEED, distanceTraveled |-> 0,
   offRoad |-> FALSE, crash |-> NoCrash, score |-> 0, trail |-> << >>]

FreshRoad == [segments |-> << >>, apexPoints |-> << >>]

FreshInput == [left |-> FALSE, right |-> FALSE]

Init ==
  /\ gameState = "MENU"
  /\ pending = "NONE"
  /\ loop = "NONE"
  /\ appScore = 0
  /\ player = FreshPlayer
  /\ road = FreshRoad
  /\ input = FreshInput
  /\ slowMoFactor = 1000
  /\ frameId = 0
  /\ lastTime = 0
  /\ time = 0
  /\ period \in Periods
  /\ tape \in 0..(NTapes - 1)
  /\ rnd = 0
  /\ last = NoObs
  /\ runs = 0
  /\ inputEvents = 0
  /\ staleFrames = 0
  /\ crashFrames = 0
  /\ view = NoView

\* A variant of EnterPlaying: the reset effect leaves the track of the old run.
C13_EnterPlayingKeepRoad ==
  /\ gameState' = "PLAYING"
  /\ pending' = "NONE"
  /\ loop' = "PLAYING"
  /\ player' = FreshPlayer
  /\ road' = road
  /\ input' = FreshInput
  /\ slowMoFactor' = 1000
  /\ lastTime' = 0
  /\ last' = NoObs
  /\ runs' = runs + 1
  /\ staleFrames' = 0
  /\ crashFrames' = 0
  /\ UNCHANGED << frameId, time, period, tape, rnd, inputEvents, view >>

\* The two effects that run when the committed phase becomes PLAYING: the frame loop
\* is registered with the new closure and every ref is recreated.
EnterPlaying ==
  /\ gameState' = "PLAYING"
  /\ pending' = "NONE"
  /\ loop' = "PLAYING"
  /\ player' = FreshPlayer
  /\ road' = FreshRoad
  /\ input' = FreshInput
  /\ slowMoFactor' = 1000
  /\ lastTime' = 0
  /\ last' = NoObs
  /\ runs' = runs + 1
  /\ staleFrames' = 0
  /\ crashFrames' = 0
  /\ UNCHANGED << frameId, time, period, tape, rnd, inputEvents, view >>

\* App.handleStart (the menu's button).
handleStart ==
  /\ gameState = "MENU"
  /\ runs < MaxRuns
  /\ appScore' = 0
  /\ EnterPlaying

\* GameCanvas.handleMenuTap (a tap on the canvas): starts a run from the menu only.
handleMenuTap ==
  /\ gameState = "MENU"
  /\ runs < MaxRuns
  /\ appScore' = appScore
  /\ EnterPlaying

\* App.handleRestart (the game-over screen's button).
handleRestart ==
  /\ gameState = "GAME_OVER"
  /\ runs < MaxRuns
  /\ appScore' = 0
  /\ EnterPlaying

\* handleKeyDown: ignored unless the committed phase is PLAYING.
handleKeyDown ==
  /\ gameState = "PLAYING"
  /\ inputEvents < MaxInputEvents
  /\ \E key \in {"left", "right"} :
       /\ ~input[key]
       /\ input' = [input EXCEPT ![key] = TRUE]
  /\ inputEvents' = inputEvents + 1
  /\ UNCHANGED << gameState, pending, loop, appScore, player, road, slowMoFactor,
                  frameId, lastTime, time, period, tape, rnd, last, runs, staleFrames,
                  crashFrames, view >>

\* handleKeyUp: always honoured.
handleKeyUp ==
  /\ inputEvents < MaxInputEvents
  /\ \E key \in {"left", "right"} :
       /\ input[key]
       /\ input' = [input EXCEPT ![key] = FALSE]
  /\ inputEvents' = inputEvents + 1
  /\ UNCHANGED << gameState, pending, loop, appScore, player, road, slowMoFactor,
                  frameId, lastTime, time, period, tape, rnd, last, runs, staleFrames,
                  crashFrames, view >>

\* safeDelta of render, in ms: the time since the last frame (0 on a run's first
\* frame, when lastTimeRef is unset), clamped to 0.1 s.
SafeDelta(now, lastT) == Min(IF lastT = 0 THEN 0 ELSE now - lastT, 100)

\* The frame callback `render`: the clamped delta, then update with the phase its
\* closure captured.  handleCrash's setGameState is a request (pending) that React
\* commits later.
render ==
  /\ loop \in {"PLAYING", "GAME_OVER"}
  /\ frameId < MaxFrames
  /\ pending # "NONE" => staleFrames < MaxStale
  /\ loop = "GAME_OVER" => crashFrames < MaxCrashFrames
  /\ time' = time + period
  /\ lastTime' = time + period
  /\ \E u \in {update(player, road, input, slowMoFactor, loop,
                       SafeDelta(time + period, lastTime), frameId, tape, rnd)} :
        /\ player' = u.p
        /\ road' = [segments |-> u.segments, apexPoints |-> u.apexPoints]
        /\ rnd' = u.rnd
        /\ slowMoFactor' = u.slowMo
        /\ appScore' = IF u.setScore THEN u.p.score ELSE appScore
        /\ pending' = IF u.crashed THEN "GAME_OVER" ELSE pending
        /\ last' = u.obs
  /\ frameId' = frameId + 1
  /\ staleFrames' = IF pending # "NONE" THEN staleFrames + 1 ELSE staleFrames
  /\ crashFrames' = IF loop = "GAME_OVER" THEN crashFrames + 1 ELSE crashFrames
  /\ UNCHANGED << gameState, loop, input, period, tape, runs, inputEvents, view >>

\* A variant of Commit: the crash leads back to the menu.
C12_CommitToMenu ==
  /\ pending = "GAME_OVER"
  /\ gameState' = "MENU"
  /\ loop' = "NONE"
  /\ pending' = "NONE"
  /\ UNCHANGED << appScore, player, road, input, slowMoFactor, frameId, lastTime, time,
                  period, tape, rnd, last, runs, inputEvents, staleFrames, crashFrames,
                  view >>

\* React commits the requested GAME_OVER phase: the frame loop effect is cleaned up
\* and registered again with the new closure.
Commit ==
  /\ pending = "GAME_OVER"
  /\ gameState' = pending
  /\ loop' = pending
  /\ pending' = "NONE"
  /\ UNCHANGED << appScore, player, road, input, slowMoFactor, frameId, lastTime, time,
                  period, tape, rnd, last, runs, inputEvents, staleFrames, crashFrames,
                  view >>

Next ==
  \/ handleStart
  \/ handleMenuTap
  \/ handleRestart
  \/ handleKeyDown
  \/ handleKeyUp
  \/ render
  \/ Commit

Spec == Init /\ [][Next]_vars

\* ------------------------------------------------------------------ single ticks
\* The tick as a function: update applied to vehicle states drawn from the values a
\* long run passes through (and, for x, the offsets just beyond the barrier), on a
\* track that generateRoad has laid around the vehicle.
TickX == {-17600, 0, 12000, 17600}

TickLean == {-10000, 0, 7000, 12000}

TickSpeed == {1500, 1900, 5000, 9400, 9500}

TickDist == {3000 * ZU, 6500 * ZU, 7500 * ZU}

TickPeriods == {1, 16, 66, 100, 120}

\* The track after k calls generateRoad(dist) on a run's empty track, tape t.
RECURSIVE RoadAfter(_, _, _)
RoadAfter(k, dist, t) ==
  IF k = 0
  THEN [road |-> FreshRoad, rnd |-> 0]
  ELSE LET prev == RoadAfter(k - 1, dist, t)
       IN generateRoad([segments |-> prev.road.segments,
                        apexPoints |-> prev.road.apexPoints, calls |-> << >>],
                       dist, t, prev.rnd)

InitTick ==
  /\ gameState \in {"PLAYING", "GAME_OVER"}
  /\ pending = "NONE"
  /\ loop = gameState
  /\ appScore = 0
  /\ \E x \in TickX, ln \in TickLean, sp \in TickSpeed, d \in TickDist :
        player = [FreshPlayer EXCEPT
                    !.x = x, !.lean = ln, !.distanceTraveled = d,
                    !.speed = IF gameState = "GAME_OVER" /\ sp = 1900 THEN 100 ELSE sp,
                    !.crash = IF gameState = "GAME_OVER"
                              THEN CrashOf([x |-> x, lean |-> ln, speed |-> sp])
                              ELSE NoCrash]
  /\ tape \in 0..1
  /\ \E g \in {RoadAfter(4, player.distanceTraveled, tape)} :
        /\ road = g.road
        /\ rnd = g.rnd
  /\ input \in [left : BOOLEAN, right : BOOLEAN]
  /\ slowMoFactor \in {100, 1000}
  /\ frameId = 0
  /\ lastTime = 1000
  /\ time = 1000
  /\ period \in TickPeriods
  /\ last = NoObs
  /\ runs = 1
  /\ inputEvents = 0
  /\ staleFrames = 0
  /\ crashFrames = 0
  /\ view = NoView

\* One frame callback on a drawn state.
tick ==
  /\ frameId < MaxTicks
  /\ render

TickSpec == InitTick /\ [][tick]_vars

\* ------------------------------------------------------------------ projection
\* Math.round of the rational a / b (b > 0 and even): the nearest integer, halves
\* upward.
Round(a, b) == (a + (b \div 2)) \div b

\* A variant of project: depths are clamped to 1000 world units instead of 10.
C14_projectFloor1000(lineX, lineY, lineZ, cameraX, cameraY, cameraZ, cameraDepth10, width, height, roadWidth) ==
  LET cx == lineX - cameraX
      cy == lineY - cameraY
      safeZ == Max(1000 * ZU, lineZ - cameraZ)
      num == cameraDepth10 * (ZU \div 10)
      den == safeZ
  IN [screenX |-> Round(width * den + num * cx * width, 2 * den),
      screenY |-> Round(height * den - num * cy * height, 2 * den),
      scale |-> [num |-> num, den |-> den],
      w |-> Round(num * roadWidth * width, 2 * den)]

\* project.  lineZ and cameraZ are in 1/100 world unit, x and y in world units,
\* cameraDepth in tenths, width and height in pixels.  scale = cameraDepth / safeZ
\* is kept as the exact fraction num / den (both positive): 0.8 / (safeZ / 100) is
\* 80 / safeZ.
project(lineX, lineY, lineZ, cameraX, cameraY, cameraZ, cameraDepth10, width, height, roadWidth) ==
  LET cx == lineX - cameraX
      cy == lineY - cameraY
      safeZ == Max(10 * ZU, lineZ - cameraZ)
      num == cameraDepth10 * (ZU \div 10)
      den == safeZ
  IN [screenX |-> Round(width * den + num * cx * width, 2 * den),
      screenY |-> Round(height * den - num * cy * height, 2 * den),
      scale |-> [num |-> num, den |-> den],
      w |-> Round(num * roadWidth * width, 2 * den)]

\* Depths (1/100 world unit) around the camera, around the clamp floor of 10 world
\* units, a segment apart, and at the draw distance.
ProjZ == {-500, 0, 1, 400, 999, 1000, 1001, 5000, 10000, 20000, 2000000}

ProjCameraZ == {0, 250, 10000}

ProjX == {-1100, 0, 2400}

\* Canvas sizes (the window's inner size).
ProjSizes == {[width |-> 800, height |-> 600], [width |-> 375, height |-> 667]}

InitProj ==
  /\ gameState = "PLAYING"
  /\ pending = "NONE"
  /\ loop = "PLAYING"
  /\ appScore = 0
  /\ player = FreshPlayer
  /\ road = FreshRoad
  /\ input = FreshInput
  /\ slowMoFactor = 1000
  /\ frameId = 0
  /\ lastTime = 0
  /\ time = 0
  /\ period = 16
  /\ tape = 0
  /\ rnd = 0
  /\ last = NoObs
  /\ runs = 1
  /\ inputEvents = 0
  /\ staleFrames = 0
  /\ crashFrames = 0
  /\ \E x \in ProjX, cz \in ProjCameraZ, sz \in ProjSizes, a \in ProjZ, b \in ProjZ :
        view = [NoView EXCEPT !.lineX = x, !.cameraZ = cz, !.width = sz.width,
                              !.height = sz.height, !.z1 = a, !.z2 = b]

\* Two calls of project that differ in lineZ only, with the arguments draw passes
\* for height, camera depth and road width.
projectPair ==
  /\ ~view.done
  /\ view' = [view EXCEPT
                !.done = TRUE,
                !.p1 = project(view.lineX, -CAMERA_HEIGHT, view.z1, 0, 0, view.cameraZ,
                               CAMERA_DEPTH10, view.width, view.height, ROAD_WIDTH),
                !.p2 = project(view.lineX, -CAMERA_HEIGHT, view.z2, 0, 0, view.cameraZ,
                               CAMERA_DEPTH10, view.width, view.height, ROAD_WIDTH)]
  /\ UNCHANGED << gameState, pending, loop, appScore, player, road, input, slowMoFactor,
                  frameId, lastTime, time, period, tape, rnd, last, runs, inputEvents,
                  staleFrames, crashFrames >>

ProjSpec == InitProj /\ [][projectPair]_vars

\* ------------------------------------------------------------------ properties
\* A frame callback has run in the current run: `last` is its record, and player and
\* road are as its update (whose last step but one is generateRoad) left them.
Ticked == last.branch # "NONE"

\* The horizon of generateRoad, in z units.
Horizon == VISIBLE_SEGMENTS * SEGMENT_LENGTH * ZU

\* C1 (contiguity): in every reachable state the stored segments are in strictly
\* increasing z order, each exactly SEGMENT_LENGTH after its predecessor: no gap and
\* no duplicate, across block boundaries and after pruning from the front.
C1_Contiguity ==
  \A i \in 1..(Len(road.segments) - 1) :
     road.segments[i + 1].z = road.segments[i].z + SEGMENT_LENGTH * ZU

\* C1's case: the latest call appended a straight block of non-integer hold behind
\* earlier blocks, on a track already pruned from the front.
C1_Witness ==
  /\ Ticked
  /\ last.len0 > 0
  /\ \E k \in DOMAIN last.calls :
        last.calls[k].enter = 0 /\ last.calls[k].hold % 100 # 0
  /\ road.segments[1].z > SEGMENT_LENGTH * ZU

\* C2 as stated (horizon guarantee): after every call generateRoad(referenceZ),
\* the first call of a run included, the last stored z is at least referenceZ + 20000.
C2_HorizonAfterEveryCall ==
  Ticked => LastZ(road.segments) >= player.distanceTraveled + Horizon

\* C2 as the code has it: after every call generateRoad(referenceZ) the last stored z
\* is at least referenceZ + 20000, or the call appended one random block (and the
\* track is still short of the horizon, as after the first call of a run).
C2_HorizonOrBlock ==
  Ticked => \/ LastZ(road.segments) >= player.distanceTraveled + Horizon
            \/ last.blocks = 1

\* C2's case: the first call of a run, on an empty track, has returned and the last
\* stored z is short of referenceZ + 20000.
C2_Witness ==
  /\ Ticked
  /\ last.first
  /\ last.blocks = 1
  /\ LastZ(road.segments) < player.distanceTraveled + Horizon

\* C3 as stated (pruning bound): after every call generateRoad(referenceZ) every
\* stored segment has z > referenceZ - 2000, strictly, and every stored apex has
\* z > referenceZ - 1000.
C3_StrictPruningBound ==
  Ticked =>
    /\ \A i \in DOMAIN road.segments :
          road.segments[i].z > player.distanceTraveled - 2000 * ZU
    /\ \A i \in DOMAIN road.apexPoints :
          road.apexPoints[i].z > player.distanceTraveled - 1000 * ZU

\* C3 as the code has it: after every call generateRoad(referenceZ) every stored
\* segment has z >= referenceZ - 2000 (a segment exactly 2000 behind is kept) and
\* every stored apex has z > referenceZ - 1000, strictly.
C3_PruningBound ==
  Ticked =>
    /\ \A i \in DOMAIN road.segments :
          road.segments[i].z >= player.distanceTraveled - 2000 * ZU
    /\ \A i \in DOMAIN road.apexPoints :
          road.apexPoints[i].z > player.distanceTraveled - 1000 * ZU

\* C3's case: the call pruned the front of the track and the first stored segment
\* is exactly 2000 behind referenceZ.
C3_Witness ==
  /\ Ticked
  /\ Len(road.segments) > 0
  /\ road.segments[1].z > SEGMENT_LENGTH * ZU
  /\ road.segments[1].z = player.distanceTraveled - 2000 * ZU

\* C4 (bounded memory): after every tick all stored segment z lie in
\* [distanceTraveled - 2000, distanceTraveled + 20000 + 100*SEGMENT_LENGTH), so at most
\* 321 segments are stored, and no more apex points than segments.
C4_BoundedWindow ==
  Ticked =>
    /\ \A i \in DOMAIN road.segments :
          /\ road.segments[i].z >= player.distanceTraveled - 2000 * ZU
          /\ road.segments[i].z < player.distanceTraveled + Horizon
                                     + 100 * SEGMENT_LENGTH * ZU
    /\ Len(road.segments) <= 20 + 1 + VISIBLE_SEGMENTS + 100
    /\ Len(road.apexPoints) <= Len(road.segments)

\* C4's case: a tick on a track that has been pruned from the front and has reached
\* the horizon, so both ends of the window are in force.
C4_Witness ==
  /\ Ticked
  /\ Len(road.segments) > 0
  /\ road.segments[1].z > SEGMENT_LENGTH * ZU
  /\ last.blocks = 0
  /\ LastZ(road.segments) >= player.distanceTraveled + Horizon

\* The apex C5 expects of one call: none for |curve| <= 2, else one at
\* startZ + (enter + hold/2) * SEGMENT_LENGTH, un-hit and un-scored.
C5_Expected(call) ==
  IF Abs(call.curve) > 200
  THEN << [z |-> call.startZ
                   + ((200 * call.enter + call.hold) * SEGMENT_LENGTH * ZU) \div 200,
           direction |-> IF call.curve > 0 THEN 1 ELSE -1,
           hit |-> FALSE, scored |-> FALSE] >>
  ELSE << >>

RECURSIVE C5_ExpectedAll(_)
C5_ExpectedAll(calls) ==
  IF calls = << >> THEN << >>
  ELSE C5_Expected(Head(calls)) \o C5_ExpectedAll(Tail(calls))

\* C5 (apex uniqueness and placement): the apexes a generateRoad call registered are
\* exactly one per addTrackSegment call with |curve| > 2, in call order, each at
\* startZ + (enter + hold/2) * SEGMENT_LENGTH with direction sign(curve), hit and
\* scored false, and they are the tail of the stored apex list; a 20/20/20 block
\* registers its apex 30 segments after its start, and the two calls of a chicane
\* register two apexes of opposite direction.
C5_ApexPlacement ==
  Ticked =>
    /\ last.newApex = C5_ExpectedAll(last.calls)
    /\ Len(last.newApex) <= Len(road.apexPoints)
    /\ last.newApex = SubSeq(road.apexPoints,
                             Len(road.apexPoints) - Len(last.newApex) + 1,
                             Len(road.apexPoints))
    /\ \A k \in DOMAIN last.calls :
          (last.calls[k].enter = 20 /\ last.calls[k].hold = 2000
             /\ last.calls[k].exit = 20)
          => \E a \in DOMAIN last.newApex :
                /\ last.newApex[a].z = last.calls[k].startZ + 30 * SEGMENT_LENGTH * ZU
                /\ last.newApex[a].direction = Sign(last.calls[k].curve)
    /\ \A k \in DOMAIN last.calls :
          (last.calls[k].enter = 15 /\ k + 1 \in DOMAIN last.calls)
          => /\ Len(last.newApex) = 2
             /\ last.newApex[1].direction = -last.newApex[2].direction

\* C5's case: the latest call appended a medium curve block (20/20/20) and registered
\* its apex.
C5_Witness ==
  /\ Ticked
  /\ \E k \in DOMAIN last.calls : last.calls[k].enter = 20
  /\ Len(last.newApex) = 1

\* C6 (apex flags are one-way): across a tick no stored apex loses its hit or its
\* scored flag, and an apex becomes scored only in a Driving tick in which the
\* vehicle's distanceTraveled is strictly greater than the apex's z.
C6_FlagsOneWay ==
  Ticked =>
    /\ \A i \in DOMAIN last.apex0 : \A j \in DOMAIN road.apexPoints :
          last.apex0[i].z = road.apexPoints[j].z
          => /\ last.apex0[i].hit => road.apexPoints[j].hit
             /\ last.apex0[i].scored => road.apexPoints[j].scored
             /\ (~last.apex0[i].scored /\ road.apexPoints[j].scored)
                => (last.branch = "PLAYING" /\ last.dist0 > last.apex0[i].z)
    /\ last.scoredNow > 0 => (last.branch = "PLAYING" /\ last.dist0 > last.scoredMaxZ)

\* C6's case: a stored apex that has been hit and, in the latest tick, became scored.
C6_Witness ==
  /\ Ticked
  /\ last.scoredNow = 1
  /\ \E j \in DOMAIN road.apexPoints :
        /\ road.apexPoints[j].z = last.scoredMaxZ
        /\ road.apexPoints[j].hit
        /\ road.apexPoints[j].scored

\* C7 (score monotonicity): the score is 0 when a run starts, each tick adds to it
\* exactly the number of apexes the tick marked scored (so it never decreases), and
\* at every tick boundary the score given to the UI equals the vehicle's score.
C7_ScoreCountsMarks ==
  /\ appScore = player.score
  /\ player.score >= 0
  /\ ~Ticked => player.score = 0
  /\ Ticked => /\ player.score = last.score0 + last.scoredNow
               /\ last.branch # "PLAYING" => last.scoredNow = 0

\* C7's case: the score is 1 after a tick that marked one apex scored.
C7_Witness ==
  /\ Ticked
  /\ last.scoredNow = 1
  /\ last.score0 = 0
  /\ player.score = 1
  /\ appScore = 1

\* The apexes whose hit flag the latest tick set, by z.
NewlyHit ==
  {last.apex0[i].z : i \in {k \in DOMAIN last.apex0 :
      /\ ~last.apex0[k].hit
      /\ \E j \in DOMAIN road.apexPoints :
            road.apexPoints[j].z = last.apex0[k].z /\ road.apexPoints[j].hit}}

\* C8 (apex hit rule): a tick sets the hit flag of at most one apex, only in a
\* Driving tick, only of an un-hit apex with |z - distanceTraveled| < 800 while
\* sign(lean) = direction and |lean| > 0.5; then exactly one rating is emitted
\* (PERFECT if |lean| > 0.8, else GOOD) and speed becomes min(speed + 300, MAX_SPEED);
\* otherwise no rating is emitted and the speed gets no boost.
C8_ApexHitRule ==
  Ticked =>
    /\ NewlyHit \subseteq {last.hitZ}
    /\ last.hitZ # -1 =>
          /\ last.branch = "PLAYING"
          /\ ~last.hitBefore
          /\ Abs(last.hitZ - last.dist0) < 800 * ZU
          /\ last.lean # 0
          /\ (IF last.lean > 0 THEN 1 ELSE -1) = last.hitDir
          /\ Abs(last.lean) > 5000
          /\ last.ratings = << IF Abs(last.lean) > 8000 THEN "PERFECT" ELSE "GOOD" >>
          /\ player.speed = Min(last.speedPhys + 300, 9500)
    /\ last.hitZ = -1 =>
          /\ last.ratings = << >>
          /\ last.branch = "PLAYING" => player.speed = last.speedPhys

\* C8's case: the latest tick set an apex's hit flag with a lean between 0.5 and 0.8
\* and emitted GOOD.
C8_Witness ==
  /\ Ticked
  /\ last.hitZ # -1
  /\ last.hitZ \in NewlyHit
  /\ last.ratings = << "GOOD" >>

\* C9 as stated (a hit boosts speed and score): in the tick in which an apex's hit
\* flag is set, the score increases as well as the speed.
C9_HitBoostsSpeedAndScore ==
  (Ticked /\ last.hitZ # -1) =>
    /\ player.speed > last.speedPhys
    /\ player.score > last.score0

\* C10 (crash transition): a Driving tick triggers the crash exactly when the
\* lateral offset after the lateral update exceeds 1.75, and no other tick does; so
\* while the run is Driving with no crash requested |x| <= 1.75.
C10_CrashTransition ==
  /\ Ticked =>
       /\ last.branch = "PLAYING" =>
             /\ last.absX = Abs(player.x)
             /\ last.crashes = 1 <=> last.absX > 17500
       /\ last.branch # "PLAYING" => last.crashes = 0
       /\ last.crashes = 1 => (pending = "GAME_OVER" \/ gameState = "GAME_OVER")
  /\ (gameState = "PLAYING" /\ pending = "NONE") => Abs(player.x) <= 17500

\* C10's case: a Driving tick left |x| above 1.75 and requested the crashed phase.
C10_Witness ==
  /\ Ticked
  /\ last.branch = "PLAYING"
  /\ last.crashes = 1
  /\ pending = "GAME_OVER"
  /\ Abs(player.x) > 17500

C12_PhaseMachine ==
  [][/\ gameState' # gameState =>
          \/ gameState = "MENU" /\ gameState' = "PLAYING"
          \/ /\ gameState = "PLAYING" /\ gameState' = "GAME_OVER"
             /\ pending = "GAME_OVER" /\ player.crash.active
          \/ gameState = "GAME_OVER" /\ gameState' = "PLAYING"
     /\ (gameState' = "PLAYING" /\ gameState # "PLAYING") =>
          /\ runs' = runs + 1
          /\ player' = FreshPlayer /\ road' = FreshRoad /\ last' = NoObs
          /\ loop' = "PLAYING"
     /\ (runs' = runs /\ gameState = "GAME_OVER") =>
          (gameState' = "GAME_OVER" /\ loop' = "GAME_OVER")
     /\ (runs' = runs /\ last.branch = "GAME_OVER") => last'.branch = "GAME_OVER"
     /\ runs' # runs => gameState' = "PLAYING"
    ]_vars

\* C12's case: a run crashed, was restarted, and the new run has ticked.
C12_Witness ==
  /\ gameState = "PLAYING"
  /\ runs = 2
  /\ Ticked

\* The refs hold the state of a run no tick has touched (the steering intents aside).
C13_Fresh ==
  /\ player.x = 0 /\ player.lean = 0 /\ player.targetLean = 0
  /\ player.speed = 1500 /\ player.distanceTraveled = 0
  /\ ~player.offRoad /\ player.score = 0 /\ player.trail = << >>
  /\ ~player.crash.active
  /\ road.segments = << >> /\ road.apexPoints = << >>
  /\ slowMoFactor = 1000
  /\ appScore = 0

\* C13 (atomic reset): every entry into the driving phase, first start or restart,
\* leaves the whole simulation state fresh with both steering intents false; it stays
\* fresh until the run's first tick, which therefore starts from the fresh state and
\* never from a mixture of old-run and new-run state.
C13_AtomicReset ==
  /\ [](gameState = "PLAYING" /\ ~Ticked => C13_Fresh)
  /\ [][/\ runs' # runs =>
             /\ gameState' = "PLAYING" /\ ~input'.left /\ ~input'.right
             /\ lastTime' = 0 /\ last' = NoObs
        /\ (frameId' # frameId /\ ~Ticked) =>
             /\ C13_Fresh
             /\ last'.dist0 = 0 /\ last'.x0 = 0 /\ last'.lean0 = 0
             /\ last'.speed0 = 1500 /\ last'.score0 = 0
             /\ last'.len0 = 0 /\ last'.apex0 = << >> /\ last'.first
       ]_vars

\* C13's case: a run that ticked and crashed was restarted; the new run has not
\* ticked yet and its state is fresh.
C13_Witness ==
  /\ gameState = "PLAYING"
  /\ runs = 2
  /\ frameId > 0
  /\ ~Ticked
  /\ C13_Fresh

\* Depth of a projected point before the camera, and comparison of two scales.
C14_Depth(z) == z - view.cameraZ

C14_ScaleLeq(s, t) == s.num * t.den <= t.num * s.den

C15_BlockCalls == SubSeq(last.calls, (IF last.first THEN 2 ELSE 1), Len(last.calls))

C15_Shape(cl, enter, exit) == cl.enter = enter /\ cl.exit = exit

C15_IsOneBlock(cs) ==
  \/ /\ Len(cs) = 1
     /\ \/ /\ C15_Shape(cs[1], 0, 0)
           /\ cs[1].curve = 0 /\ cs[1].hold >= 1000 /\ cs[1].hold <= 3000
        \/ /\ C15_Shape(cs[1], 20, 20)
           /\ cs[1].hold = 2000 /\ Abs(cs[1].curve) >= 300 /\ Abs(cs[1].curve) <= 600
        \/ /\ C15_Shape(cs[1], 30, 30)
           /\ cs[1].hold = 4000 /\ Abs(cs[1].curve) >= 500 /\ Abs(cs[1].curve) <= 800
  \/ /\ Len(cs) = 2
     /\ \A k \in 1..2 : C15_Shape(cs[k], 15, 15) /\ cs[k].hold = 1000
     /\ cs[2].curve = -(cs[1].curve)
     /\ Abs(cs[1].curve) >= 400 /\ Abs(cs[1].curve) <= 700
     /\ cs[2].startZ = cs[1].startZ + 40 * SEGMENT_LENGTH * ZU

\* Whether the horizon was already satisfied when the latest generateRoad was called.
C15_HorizonSatisfied ==
  last.len0 > 0 /\ last.lastZ0 >= player.distanceTraveled + Horizon

\* C15 as stated (one block per call): every call generateRoad(referenceZ), the first
\* call of a run on an empty track included, appends at most one block (the initial
\* straight counted as a block), and none when the horizon is already satisfied.
C15_OneBlockPerCall ==
  Ticked =>
    /\ (IF last.first THEN 1 ELSE 0) + last.blocks <= 1
    /\ Len(last.calls) > 0 =>
         (IF last.first THEN Len(last.calls) = 1 ELSE C15_IsOneBlock(last.calls))
    /\ C15_HorizonSatisfied => last.calls = << >>

\* C15 as the code has it: every call appends at most one block drawn from the four
\* patterns, and none when the horizon is already satisfied; the first call of a run
\* on an empty track first lays the initial 50-segment straight and then, the horizon
\* being unsatisfied, appends one drawn block as well.
C15_OneRandomBlockPerCall ==
  Ticked =>
    /\ last.blocks <= 1
    /\ C15_BlockCalls # << >> => C15_IsOneBlock(C15_BlockCalls)
    /\ (last.blocks = 0) <=> (C15_BlockCalls = << >>)
    /\ C15_HorizonSatisfied => last.calls = << >>
    /\ (~last.first /\ ~C15_HorizonSatisfied) => last.blocks = 1
    /\ last.first =>
         /\ last.len0 = 0
         /\ last.calls[1] = [startZ |-> 0, enter |-> 0, hold |-> 5000, exit |-> 0,
                             curve |-> 0]
         /\ last.blocks = 1
         /\ C15_BlockCalls[1].startZ = 50 * SEGMENT_LENGTH * ZU

\* C15's case: the first call of a run laid the initial straight and a chicane.
C15_Witness ==
  /\ Ticked
  /\ last.first
  /\ Len(last.calls) = 3
  /\ Len(road.segments) = 50 + 80

\* A later call found the horizon satisfied and appended nothing.
C15_WitnessNone ==
  /\ Ticked
  /\ ~last.first
  /\ C15_HorizonSatisfied
  /\ last.calls = << >>

\* The candidates of the latest tick's apex lookup: the un-hit apexes inside the
\* window around the distance the tick started with, as indexes of the list it read.
C16_Candidates ==
  {i \in DOMAIN last.apex0 :
     ~last.apex0[i].hit /\ Abs(last.apex0[i].z - last.dist0) < PERFECT_WINDOW * ZU}

\* C16 (nearest-apex selection): in every Driving tick the apex examined for a hit is
\* an un-hit apex inside the window and no other un-hit apex inside the window is
\* nearer to the vehicle; none is examined exactly when the window holds none.  Stored
\* apexes are at least two windows apart, so the window never holds two.
C16_NearestApex ==
  /\ \A i, j \in DOMAIN road.apexPoints :
        i < j => road.apexPoints[j].z - road.apexPoints[i].z >= 2 * PERFECT_WINDOW * ZU
  /\ (Ticked /\ last.branch = "PLAYING") =>
        /\ (last.apexZ = -1) <=> (C16_Candidates = {})
        /\ last.apexZ # -1 =>
             /\ \E i \in C16_Candidates : last.apex0[i].z = last.apexZ
             /\ \A j \in C16_Candidates :
                   Abs(last.apex0[j].z - last.dist0) >= Abs(last.apexZ - last.dist0)
  /\ (Ticked /\ last.branch # "PLAYING") => last.apexZ = -1

\* C16's case: a Driving tick examined an apex while the list held a second un-hit
\* apex farther ahead.
C16_Witness ==
  /\ Ticked
  /\ last.branch = "PLAYING"
  /\ last.apexZ # -1
  /\ \E j \in DOMAIN last.apex0 : ~last.apex0[j].hit /\ last.apex0[j].z > last.apexZ

\* The apexes the latest tick read that are no longer stored: pruned by its
\* generateRoad.
C17_Pruned ==
  {i \in DOMAIN last.apex0 :
     \A j \in DOMAIN road.apexPoints : road.apexPoints[j].z # last.apex0[i].z}

\* The apexes the latest tick read that the vehicle had passed and that were not yet
\* scored.
C17_PassedUnscored ==
  {i \in DOMAIN last.apex0 : ~last.apex0[i].scored /\ last.dist0 > last.apex0[i].z}

\* C17 (missed apexes still score): after every Driving tick each stored apex the
\* vehicle had passed when the tick ran is scored, hit or not, and the tick added one
\* point for each apex it marked; an apex the tick's pruning removed had been passed
\* by then, so it was scored first; and a tick emits a rating or boosts the speed only
\* for the apex whose hit flag it set, so an apex never hit gives neither.
C17_MissedApexesScore ==
  (Ticked /\ last.branch = "PLAYING") =>
    /\ \A j \in DOMAIN road.apexPoints :
          last.dist0 > road.apexPoints[j].z => road.apexPoints[j].scored
    /\ player.score = last.score0 + Cardinality(C17_PassedUnscored)
    /\ \A i \in C17_Pruned : last.dist0 > last.apex0[i].z
    /\ player.distanceTraveled - last.dist0 < 1000 * ZU
    /\ (last.ratings # << >> \/ player.speed # last.speedPhys) =>
          /\ last.hitZ # -1
          /\ \E i \in DOMAIN last.apex0 : last.apex0[i].z = last.hitZ
    /\ \A j \in DOMAIN road.apexPoints :
          ~road.apexPoints[j].hit => road.apexPoints[j].z # last.hitZ

\* C17's case: the latest Driving tick marked scored, and gave a point for, an apex
\* that was never hit, with no rating and no boost.
C17_Witness ==
  /\ Ticked
  /\ last.branch = "PLAYING"
  /\ last.scoredNow = 1
  /\ player.score = last.score0 + 1
  /\ last.ratings = << >>
  /\ player.speed = last.speedPhys
  /\ \E j \in DOMAIN road.apexPoints :
        /\ road.apexPoints[j].z = last.scoredMaxZ
        /\ ~road.apexPoints[j].hit
        /\ road.apexPoints[j].scored

\* A Driving tick pruned an apex (scored by then).
C17_WitnessPruned ==
  /\ Ticked
  /\ last.branch = "PLAYING"
  /\ C17_Pruned # {}

\* C18 as stated (lean bounded, no overshoot): at every tick boundary lean is within
\* [-1, 1], and a Driving tick leaves lean between the lean it started with and
\* targetLean, never past targetLean.
C18_LeanBounded ==
  /\ Abs(player.lean) <= ONE
  /\ (Ticked /\ last.branch = "PLAYING") =>
        /\ player.lean = last.lean
        /\ Min(last.lean0, player.targetLean * ONE) <= player.lean
        /\ player.lean <= Max(last.lean0, player.targetLean * ONE)

\* C19 (speed bounds): in every state, Driving or Crashed, 0 <= speed <= MAX_SPEED
\* (9500), also between the steps of a tick: after acceleration or decay and the
\* off-road friction, and after the apex boost.
C19_SpeedBounds ==
  /\ 0 <= player.speed
  /\ player.speed <= 9500
  /\ Ticked => (0 <= last.speedPhys /\ last.speedPhys <= 9500)
  /\ (Ticked /\ last.branch = "GAME_OVER") => player.speed <= last.speed0

\* C19's case: a Driving tick accelerated from just below MAX_SPEED, hit an apex, and
\* the boost left the speed at MAX_SPEED.
C19_Witness ==
  /\ Ticked
  /\ last.branch = "PLAYING"
  /\ last.hitZ # -1
  /\ last.speed0 < 9500
  /\ last.speedPhys > 9200
  /\ player.speed = 9500

\* A tick of the crashed phase decayed the speed.
C19_WitnessDecay ==
  /\ Ticked
  /\ last.branch = "GAME_OVER"
  /\ last.dt > 0
  /\ player.speed < last.speed0

\* The latest tick ran the Driving branch and found the vehicle off-road (the test is
\* on the lateral offset after the tick's lateral update).
C20_OffRoadTick == Ticked /\ last.branch = "PLAYING" /\ last.absX > 10000

\* C20 as stated (off-road friction): in a Driving tick that finds the vehicle
\* off-road the speed is not accelerated; after the friction step it equals
\* max(speedBefore - OFF_ROAD_FRICTION * dt, 2000), speedBefore being the speed at the
\* start of the tick.
C20_FrictionFromTickStart ==
  C20_OffRoadTick =>
    last.speedPhys = Max(last.speed0 - Trunc(6000 * last.delta, ONE), 2000)

\* C20 as the code has it: every Driving tick accelerates first, capped at MAX_SPEED;
\* when the vehicle is then off-road the friction step takes OFF_ROAD_FRICTION * dt
\* from the accelerated speed, with a floor of 2000 (dt being the frame delta scaled
\* by the slow-motion factor); when it is on the road the accelerated speed stands.
C20_FrictionAfterAcceleration ==
  (Ticked /\ last.branch = "PLAYING") =>
    /\ player.offRoad <=> last.absX > 10000
    /\ last.absX > 10000 =>
         last.speedPhys
           = Max(Min(last.speed0 + Trunc(2500 * last.delta, ONE), 9500)
                   - Trunc(6000 * last.delta, ONE), 2000)
    /\ last.absX <= 10000 =>
         last.speedPhys = Min(last.speed0 + Trunc(2500 * last.delta, ONE), 9500)

\* C20's case: an off-road Driving tick with a positive delta whose friction step left
\* the speed above the floor and below the speed the tick started with.
C20_Witness ==
  /\ C20_OffRoadTick
  /\ last.delta > 0
  /\ last.speedPhys > 2000
  /\ last.speedPhys < last.speed0

\* An off-road Driving tick raised a speed below 2000 to the floor.
C20_WitnessFloor ==
  /\ C20_OffRoadTick
  /\ last.speed0 < 2000
  /\ last.speedPhys = 2000

\* A frame callback of the crashed phase: the registered closure captured GAME_OVER.
C21_CrashedTick == loop = "GAME_OVER" /\ frameId' = frameId + 1

C22_TrackExtendedFirst ==
  Ticked => (last.len0 > 0 /\ last.lastZ0 >= last.dist0)

\* C22 as the code has it: a tick runs the vehicle update and the scoring first, then
\* advances the distance, then calls generateRoad for the advanced distance, then
\* renders.  The vehicle update therefore reads the track the previous tick left: in
\* the first tick of a run the segment sequence is empty (the curvature is taken as 0
\* and, the first frame's delta being 0, nothing moves), and in every later tick it is
\* non-empty and reaches beyond the vehicle.  After every tick the track is the one
\* generateRoad leaves for the distance the tick advanced to.
C22_UpdateThenExtend ==
  /\ ~Ticked => road.segments = << >>
  /\ Ticked =>
       /\ last.first <=> last.len0 = 0
       /\ last.first =>
            /\ last.dist0 = 0 /\ last.dt = 0 /\ last.curve = 0
            /\ player.distanceTraveled = 0 /\ player.x = 0
       /\ ~last.first => last.lastZ0 > last.dist0
       /\ road.segments # << >>
       /\ LastZ(road.segments) > player.distanceTraveled
       /\ last.blocks = 0 => LastZ(road.segments) >= player.distanceTraveled + Horizon
       /\ road.segments[1].z >= player.distanceTraveled - 2000 * ZU
       /\ \A j \in DOMAIN road.apexPoints :
             road.apexPoints[j].z > player.distanceTraveled - 1000 * ZU

\* C22's case: the first tick of a run ran against the empty track and its
\* generateRoad, called last, laid the initial road.
C22_Witness ==
  /\ Ticked
  /\ last.first
  /\ last.len0 = 0
  /\ Len(road.segments) >= 50
  /\ frameId >= 1

\* C23 as stated (crash fires at most once per run): once handleCrash has run in a
\* run, no later frame callback of that run executes the Driving branch, so none
\* calls handleCrash again and the crash state is initialised once.
C23_CrashOncePerRun ==
  [][(player.crash.active /\ frameId' = frameId + 1) =>
        /\ last'.branch # "PLAYING"
        /\ last'.crashes = 0
    ]_vars

\* The part of C23 about the second call alone: no frame callback calls handleCrash
\* in a run whose crash state is already active.
C23_NoSecondHandleCrash ==
  [][(player.crash.active /\ frameId' = frameId + 1) => last'.crashes = 0]_vars

\* The renderer's test on a trail point: ahead of the camera by more than 10.
C24_DrawnAhead(pt) == pt.z > player.distanceTraveled + 10 * ZU

\* C24 (trail points are never ahead of the vehicle): in every state each stored
\* trail point has alpha in (0, 1] and a recorded z at most the current
\* distanceTraveled, in recording order, so none satisfies the renderer's
\* ahead-of-camera condition z > distanceTraveled + 10.
C24_TrailBehind ==
  /\ \A i \in DOMAIN player.trail :
        /\ player.trail[i].alpha > 0
        /\ player.trail[i].alpha <= ONE
        /\ player.trail[i].z <= player.distanceTraveled
        /\ player.trail[i].z >= 0
        /\ ~C24_DrawnAhead(player.trail[i])
  /\ \A i \in 1..(Len(player.trail) - 1) : player.trail[i].z <= player.trail[i + 1].z

\* C24's case: a driving run whose trail holds at least two points (the renderer's
\* loop runs), after older points have faded out, with the vehicle past the latest.
C24_Witness ==
  /\ gameState = "PLAYING"
  /\ Ticked
  /\ Len(player.trail) >= 2
  /\ player.trail[1].z > 0
  /\ player.trail[Len(player.trail)].alpha < ONE
  /\ player.distanceTraveled > player.trail[Len(player.trail)].z
====
